---- MODULE Spec2Model ----
(***************************************************************************)
(* Accessibility-heatmap aggregation engine (src/app/api/src/core/         *)
(* heatmap.py): grid aggregation, per-segment kernels, the quantile        *)
(* classifier and the travel-time matrix cache.                            *)
(*                                                                         *)
(* Conventions                                                             *)
(*  - numpy arrays are TLA+ sequences (1-based); offsets stored in the     *)
(*    model keep the code's 0-based values, so the slice a[lo:hi] is       *)
(*    SubSeq(a, lo + 1, hi).                                               *)
(*  - Python's None is the model value None; a raised exception is the     *)
(*    model value Raised; an array is Arr(s) for a sequence s.             *)
(*  - a grid id is a record [hi, lo] standing for the 64-bit integer       *)
(*    hi * 2^53 + lo (H3 indexes are above 2^53); only order and equality  *)
(*    of ids are ever used.                                                *)
(***************************************************************************)
EXTENDS Integers, Sequences, FiniteSets, TLC

VARIABLES
    grid_ids,       \* input column of sort_and_unique_by_grid_ids
    travel_times,   \* input column of sort_and_unique_by_grid_ids
    tt_float,       \* TRUE when travel_times has a floating dtype
    sorted_table,   \* rows <<grid id, travel time>> returned by the aggregator
    unique,         \* [ids, index] returned by np.unique(..., return_index=True)
    kernel,         \* name of the per-segment kernel applied last
    config,         \* [sensitivity, cutoff, static_traveltime] given to it
    scores,         \* result of that kernel
    classes,        \* result of quantile_classify on scores
    pc,             \* position of the heatmap computation
    cls_a,              \* argument a of quantile_classify
    class_count,    \* argument NQ of quantile_classify
    cls_out,            \* what quantile_classify(a, NQ) returned
    perm,           \* a permutation of the positions of a
    cls_out_perm,       \* what quantile_classify returned on a permuted by perm
    cpc,            \* position of the classifier's caller
    fs_dirs,        \* directories that exist under TRAVELTIME_MATRICES_PATH
    fs_files,       \* content of every file path under it
    save_pc,        \* per caller: position inside save_traveltime_matrix
    save_args,      \* per caller: bulk_id, traveltimeobjs and isochrone_dto
    save_arrays,    \* per caller: traveltimeobjs after the conversion loop
    save_result,    \* per caller: how the last call ended
    store_log,      \* per key: the completed calls, oldest first
    calls,          \* number of calls started
    heatmap_type,   \* HeatmapSettings: the validated heatmap_type of the request
    heatmap_config, \* HeatmapSettings: heatmap_config as the validators hand it on
    settings_result,\* HeatmapSettings: how the validation ended
    vpc             \* HeatmapSettings: the validator of heatmap_config that runs next

aggVars == <<grid_ids, travel_times, tt_float, sorted_table, unique, kernel,
             config, scores, classes, pc>>

clsVars == <<cls_a, class_count, cls_out, perm, cls_out_perm, cpc>>

cacheVars == <<fs_dirs, fs_files, save_pc, save_args, save_arrays, save_result,
               store_log, calls>>

cfgVars == <<heatmap_type, heatmap_config, settings_result, vpc>>

vars == <<aggVars, clsVars, cacheVars, cfgVars>>

\* Values of different kinds are records with different fields, so that any
\* two of them can be compared.
None == [none |-> TRUE]         \* Python's None
Raised == [raised |-> TRUE]     \* an exception left the call
NaN == [nan |-> TRUE]           \* IEEE not-a-number
Num(v) == [val |-> v]           \* the number v
Arr(s) == [arr |-> s]           \* a numpy array with the elements of s

\* ------------------------------------------------------------------ bounds
MaxLen == 3

\* ----------------------------------------------------------------- helpers
Range(s) == {s[i] : i \in DOMAIN s}

RECURSIVE SeqSum(_)
SeqSum(s) == IF s = <<>> THEN 0 ELSE Head(s) + SeqSum(Tail(s))

SetMin(S) == CHOOSE x \in S : \A y \in S : x <= y

\* ---------------------------------------------------------------- grid ids
GridId(h, l) == [hi |-> h, lo |-> l]

\* ids below 2^53 and ids at and above 2^53 (where H3 indexes live)
GridIdValues == {GridId(0, 1), GridId(1, 0), GridId(1, 1)}

IdLess(x, y) == x.hi < y.hi \/ (x.hi = y.hi /\ x.lo < y.lo)
IdLeq(x, y) == x = y \/ IdLess(x, y)

\* int64 -> float64: exact below 2^53; in [2^53, 2^54) the representable
\* values are the even integers and ties round to the even mantissa, that is
\* to the multiple of 4.
ToFloat64(x) ==
    IF x.hi = 0 THEN x
    ELSE IF x.lo % 4 = 1 THEN GridId(x.hi, x.lo - 1)
    ELSE IF x.lo % 4 = 3 THEN GridId(x.hi, x.lo + 1)
    ELSE x

\* np.vstack((grid_ids, travel_times)).transpose(): one array, one dtype.
\* Two integer columns stay integers; an integer and a floating column are
\* promoted to float64, which converts every grid id.
vstack_transpose(ids, tts, isFloat) ==
    [i \in 1..Len(ids) |->
        <<IF isFloat THEN ToFloat64(ids[i]) ELSE ids[i], tts[i]>>]

\* np.unique(col, return_index=True): the distinct values in ascending order
\* and, for each, the 0-based index of its first occurrence in col.
FirstIndex(col, v) == SetMin({i \in DOMAIN col : col[i] = v}) - 1

RECURSIVE SortIds(_)
SortIds(S) ==
    IF S = {} THEN <<>>
    ELSE LET m == CHOOSE x \in S : \A y \in S : IdLeq(x, y)
         IN <<m>> \o SortIds(S \ {m})

\* the orders in which the positions in S can be listed
Orders(S) ==
    {p \in [1..Cardinality(S) -> S] : \A i, j \in 1..Cardinality(S) : i # j => p[i] # p[j]}

\* the positions of the smallest key in any order, then those of the next
RECURSIVE OrdersByKey(_, _)
OrdersByKey(ids, keys) ==
    IF ids = <<>> THEN {<<>>}
    ELSE {h \o t : h \in Orders({i \in DOMAIN keys : keys[i] = Head(ids)}),
                   t \in OrdersByKey(Tail(ids), keys)}

\* table[:, 0].argsort(): the default kind is quicksort, which is not stable,
\* so any permutation that puts the keys in nondecreasing order is an outcome.
ArgSorts(keys) == OrdersByKey(SortIds(Range(keys)), keys)

np_unique(col) ==
    LET ids == SortIds(Range(col))
    IN [ids |-> ids, index |-> [i \in DOMAIN ids |-> FirstIndex(col, ids[i])]]

Column(tab, c) == [i \in DOMAIN tab |-> tab[i][c]]

\* sort_and_unique_by_grid_ids: the set of results the call can return, one
\* per outcome of the argsort.
sort_and_unique_by_grid_ids(ids, tts, isFloat) ==
    LET table == vstack_transpose(ids, tts, isFloat)
    IN {[sorted_table |-> [i \in DOMAIN table |-> table[p[i]]],
         unique |-> np_unique([i \in DOMAIN table |-> table[p[i]][1]])] :
            p \in ArgSorts(Column(table, 1))}

\* ----------------------------------------------------- per-segment kernels
\* A cell of an np.empty array that no statement has written.
Uninit == [uninit |-> TRUE]

\* A float is an integer or a quotient of two integers.
Rat(n, d) == [num |-> n, den |-> d]

\* the offsets without the final boundary
unique_index_without_end(tts, uniq) == uniq.index

\* np.append(unique[1], travel_times.shape[0])
unique_index(tts, uniq) == Append(uniq.index, Len(tts))

\* travel_times[unique_index[i] : unique_index[i + 1]] for the 0-based i
Segment(tts, ui, i) ==
    LET lo == ui[i + 1]
        hi == IF ui[i + 2] < Len(tts) THEN ui[i + 2] ELSE Len(tts)
    IN SubSeq(tts, lo + 1, hi)

\* the largest travel time of the segment instead of the smallest
np_max(seg) ==
    IF seg = <<>> THEN Raised
    ELSE Num(CHOOSE x \in Range(seg) : \A y \in Range(seg) : x >= y)

np_min(seg) == IF seg = <<>> THEN Raised ELSE Num(SetMin(Range(seg)))

np_average(seg) == IF seg = <<>> THEN NaN ELSE Rat(SeqSum(seg), Len(seg))

RECURSIVE SortAscending(_)
SortAscending(s) ==
    IF s = <<>> THEN <<>>
    ELSE LET k == CHOOSE i \in DOMAIN s : \A j \in DOMAIN s : s[i] <= s[j]
         IN <<s[k]>> \o SortAscending([j \in 1..(Len(s) - 1) |->
                                    IF j < k THEN s[j] ELSE s[j + 1]])

\* np.median: the middle of the sorted segment, the mean of the two middle
\* values when the length is even.
np_median(seg) ==
    IF seg = <<>> THEN NaN
    ELSE LET srt == SortAscending(seg)
             n == Len(seg)
         IN IF n % 2 = 1 THEN Rat(2 * srt[(n + 1) \div 2], 2)
            ELSE Rat(srt[n \div 2] + srt[n \div 2 + 1], 2)

\* An integer stored in a float32 cell: exact up to 2^24, rounded to the
\* nearest multiple of the spacing above it, ties to the even mantissa.
RECURSIVE Float32Ulp(_)
Float32Ulp(n) == IF n < 2^24 THEN 1 ELSE 2 * Float32Ulp(n \div 2)

Float32(n) ==
    LET ulp == Float32Ulp(n)
        q == n \div ulp
        r == n % ulp
    IN IF 2 * r < ulp \/ (2 * r = ulp /\ q % 2 = 0) THEN q * ulp ELSE (q + 1) * ulp

\* The loop shared by the kernels: an np.empty array of unique[1].shape[0]
\* float32 cells, cell i written for i in range(unique_index.shape[0] - 1).
mins(tts, uniq) ==
    IF Len(tts) = 0 THEN None
    ELSE LET ui == unique_index(tts, uniq)
         IN Arr([i \in 1..Len(uniq.index) |->
                IF i - 1 < Len(ui) - 1
                THEN LET m == np_min(Segment(tts, ui, i - 1))
                     IN IF m = Raised THEN m ELSE Num(Float32(m.val))
                ELSE Uninit])

\* a loop that counts the samples up to the end of the segment
counts_up_to_segment_end(tts, uniq) ==
    IF Len(tts) = 0 THEN None
    ELSE LET ui == unique_index(tts, uniq)
         IN Arr([i \in 1..Len(uniq.index) |->
                IF i - 1 < Len(ui) - 1 THEN Num(Float32(ui[i + 1]))
                ELSE Uninit])

counts(tts, uniq) ==
    IF Len(tts) = 0 THEN None
    ELSE LET ui == unique_index(tts, uniq)
         IN Arr([i \in 1..Len(uniq.index) |->
                IF i - 1 < Len(ui) - 1
                THEN Num(Float32(Len(Segment(tts, ui, i - 1))))
                ELSE Uninit])

averages(tts, uniq) ==
    IF Len(tts) = 0 THEN None
    ELSE LET ui == unique_index(tts, uniq)
         IN Arr([i \in 1..Len(uniq.index) |->
                IF i - 1 < Len(ui) - 1 THEN np_average(Segment(tts, ui, i - 1))
                ELSE Uninit])

medians(tts, uniq) ==
    IF Len(tts) = 0 THEN None
    ELSE LET ui == unique_index(tts, uniq)
         IN Arr([i \in 1..Len(uniq.index) |->
                IF i - 1 < Len(ui) - 1 THEN np_median(Segment(tts, ui, i - 1))
                ELSE Uninit])

\* A gaussian score is the sum, in sample order, of exp(-e / sensitivity_)
\* over the exponents e in terms, with sensitivity_ = sensitivity / 3600;
\* a contribution of 1 is the term e = 0.
GaussSum(terms, sensitivity) == [terms |-> terms, sensitivity |-> sensitivity]

\* an inner loop that leaves out the samples at the cutoff as well
ModifiedGaussianTermsBelowCutoff(seg, cutoff) ==
    LET Below(t) == t < cutoff
        kept == SelectSeq(seg, Below)
    IN [j \in DOMAIN kept |-> kept[j] * kept[j]]

\* the inner loop of modified_gaussian_per_grid
RECURSIVE ModifiedGaussianTerms(_, _)
ModifiedGaussianTerms(seg, cutoff) ==
    IF seg = <<>> THEN <<>>
    ELSE LET t == Head(seg)
         IN (IF t > cutoff THEN <<>> ELSE <<t * t>>)
                \o ModifiedGaussianTerms(Tail(seg), cutoff)

\* an inner loop without the contribution of 1 up to the static travel time
CombinedGaussianTermsWithoutSaturation(seg, cutoff, static_traveltime) ==
    LET Within(t) == t <= cutoff
        kept == SelectSeq(seg, Within)
    IN [j \in DOMAIN kept |->
            (kept[j] - static_traveltime) * (kept[j] - static_traveltime)]

\* an inner loop that tests for the static travel time first
CombinedGaussianTermsStaticFirst(seg, cutoff, static_traveltime) ==
    LET Counted(t) == t <= static_traveltime \/ t <= cutoff
        kept == SelectSeq(seg, Counted)
    IN [j \in DOMAIN kept |->
            IF kept[j] <= static_traveltime THEN 0
            ELSE (kept[j] - static_traveltime) * (kept[j] - static_traveltime)]

\* the inner loop of combined_modified_gaussian_per_grid
RECURSIVE CombinedGaussianTerms(_, _, _)
CombinedGaussianTerms(seg, cutoff, static_traveltime) ==
    IF seg = <<>> THEN <<>>
    ELSE LET t == Head(seg)
         IN (IF t > cutoff THEN <<>>
             ELSE IF t <= static_traveltime THEN <<0>>
             ELSE <<(t - static_traveltime) * (t - static_traveltime)>>)
                \o CombinedGaussianTerms(Tail(seg), cutoff, static_traveltime)

\* the kernel without its test for an empty travel_times
modified_gaussian_per_grid_without_size_guard(tts, uniq, sensitivity, cutoff) ==
    LET ui == unique_index(tts, uniq)
    IN Arr([i \in 1..Len(uniq.index) |->
            IF i - 1 < Len(ui) - 1
            THEN GaussSum(ModifiedGaussianTerms(Segment(tts, ui, i - 1), cutoff),
                          sensitivity)
            ELSE Uninit])

modified_gaussian_per_grid(tts, uniq, sensitivity, cutoff) ==
    IF Len(tts) = 0 THEN None
    ELSE LET ui == unique_index(tts, uniq)
         IN Arr([i \in 1..Len(uniq.index) |->
                IF i - 1 < Len(ui) - 1
                THEN GaussSum(ModifiedGaussianTerms(Segment(tts, ui, i - 1), cutoff),
                              sensitivity)
                ELSE Uninit])

combined_modified_gaussian_per_grid(tts, uniq, sensitivity, cutoff, static_traveltime) ==
    IF Len(tts) = 0 THEN None
    ELSE LET ui == unique_index(tts, uniq)
         IN Arr([i \in 1..Len(uniq.index) |->
                IF i - 1 < Len(ui) - 1
                THEN GaussSum(CombinedGaussianTerms(Segment(tts, ui, i - 1), cutoff,
                                                    static_traveltime),
                              sensitivity)
                ELSE Uninit])

\* ------------------------------------------------------ quantile classifier
\* Scores are integers or NaN; every comparison with NaN is false.
\* Quantiles are kept as integers scaled by NQ: x is compared with q / NQ.
IsNaN(x) == x = NaN
IsZero(x) == ~IsNaN(x) /\ x.val = 0
Gt0(x) == ~IsNaN(x) /\ x.val > 0
LtQ(x, q, NQ) == ~IsNaN(x) /\ x.val * NQ < q
GeQ(x, q, NQ) == ~IsNaN(x) /\ x.val * NQ >= q

\* a value stored into an np.int8 array
Int8(v) == ((v + 128) % 256) - 128

\* what the cells of np.empty(n, np.int8) can hold before they are written:
\* any int8; the lowest and the highest stand for them.
GarbageValues == {-128, 127}

\* class counts of the model: the default 5 and the smaller ones
ClassCounts == {2, 3, 4, 5}

\* len(np.arange(1 / NQ, 1, 1 / NQ)) = ceil((1 - 1/NQ) / (1/NQ)) in IEEE
\* double arithmetic. For NQ = 3 the quotient is 2.0000000000000004, so the
\* array has 3 elements [1/3, 2/3, 1.0]; for 2, 4 and 5 it has NQ - 1.
arange_len(NQ) == IF NQ = 3 THEN NQ ELSE NQ - 1

\* a[a_gt_0]
RECURSIVE SelectGt0(_)
SelectGt0(a) ==
    IF a = <<>> THEN <<>>
    ELSE (IF Gt0(Head(a)) THEN <<Head(a).val>> ELSE <<>>) \o SelectGt0(Tail(a))

\* NQ * np.quantile(x, k / NQ) with the default linear interpolation: the
\* virtual index is h = (k / NQ) * (len(x) - 1) and the result is
\* x[floor h] + frac(h) * (x[floor h + 1] - x[floor h]) on the sorted x.
\* Kept as NQ times the quantile, which is an integer for integer scores;
\* srt is x sorted.
QuantileScaled(srt, k, NQ) ==
    LET h == k * (Len(srt) - 1)
        lo == h \div NQ
        r == h % NQ
    IN IF r = 0 THEN NQ * srt[lo + 1]
       ELSE NQ * srt[lo + 1] + r * (srt[lo + 2] - srt[lo + 1])

\* np.quantile(a[a_gt_0], q) for q = np.arange(1 / NQ, 1, 1 / NQ), scaled
quantiles(a, NQ) ==
    LET srt == SortAscending(SelectGt0(a))
    IN [k \in 1..arange_len(NQ) |-> QuantileScaled(srt, k, NQ)]

\* out[np.where(mask)] = v
Assign(out, mask, v) ==
    [i \in DOMAIN out |-> IF mask[i] THEN Int8(v) ELSE out[i]]

\* for i in range(NQ - 2): out[quantiles[i] <= a < quantiles[i + 1]] = i + 2
RECURSIVE BandLoop(_, _, _, _, _)
BandLoop(out, a, qs, NQ, i) ==
    IF i >= NQ - 2 THEN out
    ELSE BandLoop(
            Assign(out,
                   [j \in DOMAIN a |-> GeQ(a[j], qs[i + 1], NQ) /\ LtQ(a[j], qs[i + 2], NQ)],
                   i + 2),
            a, qs, NQ, i + 1)

\* lines 205-216: the breakpoints and the writes of the classes 0 .. NQ into
\* out = np.empty(a.size, np.int8), whose content on entry is empty
classify_bands(x, NQ, empty) ==
    LET qs == quantiles(x, NQ)
        out1 == Assign(empty, [j \in DOMAIN x |-> IsZero(x[j])], 0)
        out2 == Assign(out1, [j \in DOMAIN x |-> Gt0(x[j]) /\ LtQ(x[j], qs[1], NQ)], 1)
        out3 == Assign(out2, [j \in DOMAIN x |-> GeQ(x[j], qs[Len(qs)], NQ)], NQ)
    IN BandLoop(out3, x, qs, NQ, 0)

\* out[np.isnan(a)] = 0
nan_to_zero(out, x) == Assign(out, [j \in DOMAIN x |-> IsNaN(x[j])], 0)

\* the classifier without its guard for inputs that have no positive score:
\* np.quantile has nothing to take a quantile of
quantile_classify_without_zero_guard(a, NQ, empty) ==
    IF a = None THEN None
    ELSE IF Len(a.arr) = 0 THEN a
    ELSE IF SelectGt0(a.arr) = <<>> THEN Raised
    ELSE Arr(nan_to_zero(classify_bands(a.arr, NQ, empty), a.arr))

\* the classifier without its last statement
quantile_classify_without_nan_rule(a, NQ, empty) ==
    IF a = None THEN None
    ELSE IF Len(a.arr) = 0 THEN a
    ELSE IF SelectGt0(a.arr) = <<>> THEN Arr([i \in DOMAIN a.arr |-> 0])
    ELSE Arr(classify_bands(a.arr, NQ, empty))

\* quantile_classify(a, NQ); empty is the content of np.empty(a.size, np.int8)
quantile_classify(a, NQ, empty) ==
    IF a = None THEN None
    ELSE IF Len(a.arr) = 0 THEN a
    ELSE IF SelectGt0(a.arr) = <<>> THEN Arr([i \in DOMAIN a.arr |-> 0])
    ELSE Arr(nan_to_zero(classify_bands(a.arr, NQ, empty), a.arr))

\* ------------------------------------------------- travel-time matrix cache
MaxCalls == 2

Writers == {1, 2}
Modes == {"walking", "cycling"}
WalkingProfiles == {"standard", "elderly"}
CyclingProfiles == {"standard", "pedelec"}
Profiles == WalkingProfiles \cup CyclingProfiles
BulkIds == {1, 2}

\* elements of the lists in traveltimeobjs
IntEl(v) == [int |-> v]
StrEl(v) == [str |-> v]
FloatEl(halves) == [float |-> halves]       \* the float halves / 2
IsStr(e) == "str" \in DOMAIN e
IsFloat(e) == "float" \in DOMAIN e

\* the mappings given to save_traveltime_matrix
ColumnsWide ==
    [grid_ids |-> <<IntEl(1), IntEl(2)>>,
     travel_times |-> <<FloatEl(5), FloatEl(7)>>,
     west |-> <<StrEl("a"), StrEl("b")>>]

ColumnsNarrow ==
    [grid_ids |-> <<IntEl(3)>>,
     travel_times |-> <<IntEl(4)>>]

\* a mapping with a column of length 0
ColumnsWithEmptyColumn ==
    [grid_ids |-> <<IntEl(3)>>,
     travel_times |-> <<>>]

ColumnSets == {ColumnsWide, ColumnsNarrow, ColumnsWithEmptyColumn}

\* the content of a file path
Absent == [absent |-> TRUE]
Partial == [partial |-> TRUE]       \* an archive whose writing was cut short
NpzFile(arrays) == [npz |-> arrays]

\* str(x) of a list element
ToStr(e) == IF IsStr(e) THEN e ELSE StrEl(e)

\* float(x) of a number
ToFloat(e) == IF IsFloat(e) THEN e ELSE FloatEl(2 * e.int)

\* an array of strings whatever the elements are
np_array_of_str(col, asObject) ==
    [dtype |-> "str", data |-> [i \in DOMAIN col |-> ToStr(col[i])]]

\* np.array(col, dtype=object) keeps the elements; np.array(col) takes the
\* common type: a string type as soon as one element is a string, float64
\* as soon as one is a float, int64 otherwise.
np_array(col, asObject) ==
    IF asObject THEN [dtype |-> "object", data |-> col]
    ELSE IF \E i \in DOMAIN col : IsStr(col[i])
         THEN [dtype |-> "str", data |-> [i \in DOMAIN col |-> ToStr(col[i])]]
         ELSE IF \E i \in DOMAIN col : IsFloat(col[i])
              THEN [dtype |-> "float64", data |-> [i \in DOMAIN col |-> ToFloat(col[i])]]
              ELSE [dtype |-> "int64", data |-> col]

\* a conversion that takes a column of any length
ConvertColumnsOfAnyLength(objs) ==
    [k \in DOMAIN objs |-> np_array(objs[k], objs[k] # <<>> /\ IsStr(objs[k][1]))]

\* the conversion loop: Raised when a column has no first element
\* (IndexError), the converted mapping otherwise
ConvertColumns(objs) ==
    IF \E k \in DOMAIN objs : objs[k] = <<>> THEN Raised
    ELSE [k \in DOMAIN objs |-> np_array(objs[k], IsStr(objs[k][1]))]

\* os.path.join(TRAVELTIME_MATRICES_PATH, mode.value, walking_profile.value)
Directory(args) == <<args.mode, args.walking_profile>>

\* a file name that leaves the bulk id out
FileDirWithoutBulkId(args) == <<args.mode, args.walking_profile, SetMin(BulkIds)>>

\* os.path.join(directory, f"{bulk_id}.npz")
FileDir(args) == <<args.mode, args.walking_profile, args.bulk_id>>

FilePaths == {<<m, p, b>> : m \in Modes, p \in Profiles, b \in BulkIds}

\* os.makedirs(directory): the directory and its missing parents
makedirs(dirs, directory) == dirs \cup {<<directory[1]>>, directory}

\* delete_file(file_dir): the file is gone afterwards, a missing file is
\* no error
delete_file(files, path) == [files EXCEPT ![path] = Absent]

\* np.savez_compressed(file_dir, **traveltimeobjs) running to its end: the
\* archive is opened for writing, which empties it, and holds one member per
\* keyword afterwards
savez_compressed(files, path, arrays) == [files EXCEPT ![path] = NpzFile(arrays)]

\* load(batch_id, mode, profile): the arrays of the archive at the path, by
\* name, each with its dtype and its elements; Raised when there is no
\* complete archive
load(files, path) ==
    IF "npz" \in DOMAIN files[path] THEN files[path].npz ELSE Raised

\* the key a call stores under: mode, profile and batch id as it is given them
Keys == {<<m, p, b>> : m \in Modes, p \in WalkingProfiles, b \in BulkIds}

KeyOf(args) == <<args.mode, args.walking_profile, args.bulk_id>>

NoArgs ==
    [bulk_id |-> 0, mode |-> "", walking_profile |-> "", cycling_profile |-> "",
     traveltimeobjs |-> <<>>]

IdleCache ==
    /\ fs_dirs = {}
    /\ fs_files = [f \in FilePaths |-> Absent]
    /\ save_pc = [w \in Writers |-> "idle"]
    /\ save_args = [w \in Writers |-> NoArgs]
    /\ save_arrays = [w \in Writers |-> None]
    /\ save_result = [w \in Writers |-> "none"]
    /\ store_log = [k \in Keys |-> <<>>]
    /\ calls = 0

\* save_traveltime_matrix is entered
SaveCall(w) ==
    /\ save_pc[w] = "idle"
    /\ calls < MaxCalls
    /\ calls' = calls + 1
    /\ \E b \in BulkIds, m \in Modes, p \in WalkingProfiles, c \in CyclingProfiles,
          objs \in ColumnSets :
        save_args' = [save_args EXCEPT ![w] =
                        [bulk_id |-> b, mode |-> m, walking_profile |-> p,
                         cycling_profile |-> c, traveltimeobjs |-> objs]]
    /\ save_pc' = [save_pc EXCEPT ![w] = "convert"]
    /\ save_result' = [save_result EXCEPT ![w] = "running"]
    /\ UNCHANGED <<fs_dirs, fs_files, save_arrays, store_log>>
    /\ UNCHANGED <<aggVars, clsVars, cfgVars>>

\* the call ends with result r
SaveReturn(w, r) ==
    /\ save_pc' = [save_pc EXCEPT ![w] = "idle"]
    /\ save_result' = [save_result EXCEPT ![w] = r]
    /\ store_log' = [store_log EXCEPT ![KeyOf(save_args[w])] =
                        Append(@, [result |-> r,
                                   traveltimeobjs |-> save_args[w].traveltimeobjs])]

\* lines 243-248
SaveConvert(w) ==
    /\ save_pc[w] = "convert"
    /\ LET arrays == ConvertColumns(save_args[w].traveltimeobjs)
       IN IF arrays = Raised
          THEN /\ SaveReturn(w, "IndexError")
               /\ UNCHANGED save_arrays
          ELSE /\ save_arrays' = [save_arrays EXCEPT ![w] = arrays]
               /\ save_pc' = [save_pc EXCEPT ![w] = "exists"]
               /\ UNCHANGED <<save_result, store_log>>
    /\ UNCHANGED <<fs_dirs, fs_files, save_args, calls>>
    /\ UNCHANGED <<aggVars, clsVars, cfgVars>>

\* line 258
SaveExists(w) ==
    /\ save_pc[w] = "exists"
    /\ save_pc' = [save_pc EXCEPT ![w] =
                        IF Directory(save_args[w]) \in fs_dirs THEN "delete" ELSE "makedirs"]
    /\ UNCHANGED <<fs_dirs, fs_files, save_args, save_arrays, save_result, store_log, calls>>
    /\ UNCHANGED <<aggVars, clsVars, cfgVars>>

\* line 259: FileExistsError when the directory is there by now
SaveMakedirs(w) ==
    /\ save_pc[w] = "makedirs"
    /\ IF Directory(save_args[w]) \in fs_dirs
       THEN /\ SaveReturn(w, "FileExistsError")
            /\ UNCHANGED fs_dirs
       ELSE /\ fs_dirs' = makedirs(fs_dirs, Directory(save_args[w]))
            /\ save_pc' = [save_pc EXCEPT ![w] = "delete"]
            /\ UNCHANGED <<save_result, store_log>>
    /\ UNCHANGED <<fs_files, save_args, save_arrays, calls>>
    /\ UNCHANGED <<aggVars, clsVars, cfgVars>>

\* line 261
SaveDelete(w) ==
    /\ save_pc[w] = "delete"
    /\ fs_files' = delete_file(fs_files, FileDir(save_args[w]))
    /\ save_pc' = [save_pc EXCEPT ![w] = "write"]
    /\ UNCHANGED <<fs_dirs, save_args, save_arrays, save_result, store_log, calls>>
    /\ UNCHANGED <<aggVars, clsVars, cfgVars>>

\* lines 263-266, the archive written to its end
SaveWrite(w) ==
    /\ save_pc[w] = "write"
    /\ fs_files' = savez_compressed(fs_files, FileDir(save_args[w]), save_arrays[w])
    /\ SaveReturn(w, "ok")
    /\ UNCHANGED <<fs_dirs, save_args, save_arrays, calls>>
    /\ UNCHANGED <<aggVars, clsVars, cfgVars>>

\* lines 263-266, the operating system refusing to open the archive
SaveWriteRefused(w) ==
    /\ save_pc[w] = "write"
    /\ SaveReturn(w, "OSError")
    /\ UNCHANGED <<fs_dirs, fs_files, save_args, save_arrays, calls>>
    /\ UNCHANGED <<aggVars, clsVars, cfgVars>>

\* lines 263-266, an I/O error after the archive was opened: np.savez writes
\* the members into the file at file_dir itself
SaveWriteCutShort(w) ==
    /\ save_pc[w] = "write"
    /\ fs_files' = [fs_files EXCEPT ![FileDir(save_args[w])] = Partial]
    /\ SaveReturn(w, "OSError")
    /\ UNCHANGED <<fs_dirs, save_args, save_arrays, calls>>
    /\ UNCHANGED <<aggVars, clsVars, cfgVars>>



SaveStep(w) ==
    \/ SaveCall(w)
    \/ SaveConvert(w)
    \/ SaveExists(w)
    \/ SaveMakedirs(w)
    \/ SaveDelete(w)
    \/ SaveWrite(w)
    \/ SaveWriteRefused(w)
    \/ SaveWriteCutShort(w)

\* ------------------------------------------------- heatmap settings
\* HeatmapSettings: the validators of the field heatmap_config, run in their
\* order on the value of the request: the pre-validator, then the two
\* validators in the order of their definition. A validator that raises ends
\* the validation with a ValidationError.
HeatmapTypes ==
    {"modified_gaussian", "combined_cumulative_modified_gaussian", "connectivity",
     "cumulative", "closest_average"}

\* the required integer fields of the config classes
HeatmapBase == {"max_traveltime", "weight"}
HeatmapConfigGravity == HeatmapBase \cup {"sensitivity"}
HeatmapConfigCombinedGravity == HeatmapConfigGravity \cup {"static_traveltime"}
HeatmapClosestAverage == HeatmapBase \cup {"max_count"}

ConfigFields == HeatmapConfigCombinedGravity \cup HeatmapClosestAverage

\* Field(None, le=25)
MaxConnectivityTraveltime == 25

EmptyDict == [f \in {} |-> 0]

IsInt(x) == DOMAIN x = {"int"}

\* the values a request gives the fields of one category
FieldValues(f) ==
    IF f = "sensitivity" THEN {IntEl(-1), IntEl(0), IntEl(3600)} ELSE {IntEl(20)}

CategoryConfigs ==
    UNION {[S -> {IntEl(-1), IntEl(0), IntEl(20), IntEl(3600)}] : S \in SUBSET ConfigFields}

RequestCategoryConfigs ==
    {c \in CategoryConfigs : \A f \in DOMAIN c : c[f] \in FieldValues(f)}

\* heatmap_config by category, and heatmap_config as one global max_traveltime
CategoryMaps ==
    UNION {[S -> RequestCategoryConfigs] : S \in {{"atm"}, {"atm", "bar"}}}

GlobalConfigs ==
    {EmptyDict} \cup {[max_traveltime |-> IntEl(v)] : v \in {20, 30}}

\* ModelClass(**data) for a class of required integer fields: ValidationError
\* when data is no mapping (TypeError of **) or lacks a required field; fields
\* the class does not have are ignored
Construct(required, data) ==
    IF IsInt(data) THEN Raised
    ELSE IF required \subseteq DOMAIN data THEN [f \in required |-> data[f]]
    ELSE Raised

\* HeatmapConfigConnectivity(**value): max_traveltime is None when it is not
\* given, and at most 25 when it is
HeatmapConfigConnectivity(value) ==
    IF "max_traveltime" \in DOMAIN value
    THEN IF IsInt(value["max_traveltime"])
            /\ value["max_traveltime"].int <= MaxConnectivityTraveltime
         THEN [max_traveltime |-> value["max_traveltime"]]
         ELSE Raised
    ELSE [max_traveltime |-> None]

pass_poi_to_heatmap_config(value) ==
    IF "poi" \in DOMAIN value /\ DOMAIN value["poi"] # {} THEN value["poi"] ELSE value

heatmap_config_schema_connectivity(value, type) ==
    IF type # "connectivity" THEN value ELSE HeatmapConfigConnectivity(value)

validator_classes ==
    [modified_gaussian |-> HeatmapConfigGravity,
     combined_cumulative_modified_gaussian |-> HeatmapConfigCombinedGravity,
     closest_average |-> HeatmapClosestAverage]

heatmap_config_schema(value, type) ==
    IF type = "connectivity" THEN value
    ELSE IF type \notin DOMAIN validator_classes THEN Raised
    ELSE IF \A category \in DOMAIN value :
                Construct(validator_classes[type], value[category]) # Raised
         THEN value
         ELSE Raised

IdleSettings ==
    /\ heatmap_type = ""
    /\ heatmap_config = EmptyDict
    /\ settings_result = "none"
    /\ vpc = "idle"

\* one validator of heatmap_config has run and returned result
ValidatorStep(result, next) ==
    /\ IF result = Raised
       THEN /\ settings_result' = "ValidationError"
            /\ vpc' = "done"
            /\ UNCHANGED heatmap_config
       ELSE /\ heatmap_config' = result
            /\ vpc' = next
            /\ settings_result' = IF next = "done" THEN "accepted" ELSE settings_result
    /\ UNCHANGED heatmap_type
    /\ UNCHANGED <<aggVars, clsVars, cacheVars>>

PassPoiToHeatmapConfig ==
    /\ vpc = "pre"
    /\ ValidatorStep(pass_poi_to_heatmap_config(heatmap_config), "connectivity")

HeatmapConfigSchemaConnectivity ==
    /\ vpc = "connectivity"
    /\ ValidatorStep(heatmap_config_schema_connectivity(heatmap_config, heatmap_type),
                     "schema")

HeatmapConfigSchema ==
    /\ vpc = "schema"
    /\ ValidatorStep(heatmap_config_schema(heatmap_config, heatmap_type), "done")

\* ------------------------------------------------- heatmap computation
\* One heatmap computation for one category: the aggregator, then one
\* kernel on its result, then the classifier on the kernel's scores.
TimeValues == {0, 1, 2}
Sensitivities == {3600}
DefaultNQ == 5
NoConfig == [sensitivity |-> 0, cutoff |-> 0, static_traveltime |-> 0]

SeqsOfLen(S, n) == [1..n -> S]

\* the classifier's caller before it is given anything
IdleClassifier ==
    /\ cls_a = None
    /\ class_count = DefaultNQ
    /\ cls_out = None
    /\ perm = <<>>
    /\ cls_out_perm = None
    /\ cpc = "idle"

InitAgg ==
    /\ IdleClassifier
    /\ IdleCache
    /\ IdleSettings
    /\ \E n \in 0..MaxLen :
        /\ grid_ids \in SeqsOfLen(GridIdValues, n)
        /\ travel_times \in SeqsOfLen(TimeValues, n)
    /\ tt_float \in BOOLEAN
    /\ sorted_table = <<>>
    /\ unique = [ids |-> <<>>, index |-> <<>>]
    /\ kernel = "none"
    /\ config = NoConfig
    /\ scores = None
    /\ classes = None
    /\ pc = "input"

SortAndUnique ==
    /\ pc = "input"
    /\ \E r \in sort_and_unique_by_grid_ids(grid_ids, travel_times, tt_float) :
        /\ sorted_table' = r.sorted_table
        /\ unique' = r.unique
    /\ pc' = "sorted"
    /\ UNCHANGED <<grid_ids, travel_times, tt_float, kernel, config, scores, classes>>
    /\ UNCHANGED <<clsVars, cacheVars, cfgVars>>

\* the kernels are given the travel-time column of the sorted table
SortedTimes == Column(sorted_table, 2)

ApplyKernel(name, cfg, result) ==
    /\ pc = "sorted"
    /\ kernel' = name
    /\ config' = cfg
    /\ scores' = result
    /\ pc' = "scored"
    /\ UNCHANGED <<grid_ids, travel_times, tt_float, sorted_table, unique, classes>>
    /\ UNCHANGED <<clsVars, cacheVars, cfgVars>>

Mins == ApplyKernel("mins", NoConfig, mins(SortedTimes, unique))

Counts == ApplyKernel("counts", NoConfig, counts(SortedTimes, unique))

Averages == ApplyKernel("averages", NoConfig, averages(SortedTimes, unique))

Medians == ApplyKernel("medians", NoConfig, medians(SortedTimes, unique))

ModifiedGaussian ==
    \E sens \in Sensitivities, cutoff \in TimeValues :
        ApplyKernel("modified_gaussian",
                    [sensitivity |-> sens, cutoff |-> cutoff, static_traveltime |-> 0],
                    modified_gaussian_per_grid(SortedTimes, unique, sens, cutoff))

CombinedModifiedGaussian ==
    \E sens \in Sensitivities, cutoff \in TimeValues, static \in TimeValues :
        ApplyKernel("combined_modified_gaussian",
                    [sensitivity |-> sens, cutoff |-> cutoff, static_traveltime |-> static],
                    combined_modified_gaussian_per_grid(SortedTimes, unique, sens,
                                                        cutoff, static))

\* quantile_classify on the scores of the kernel; scores that are neither
\* numbers nor absent (quotients, gaussian sums) are left unclassified.
Classify ==
    /\ pc = "scored"
    /\ scores = None \/ kernel \in {"mins", "counts"}
    /\ \E empty \in SeqsOfLen(GarbageValues, IF scores = None THEN 0 ELSE Len(scores.arr)) :
        classes' = quantile_classify(scores, DefaultNQ, empty)
    /\ pc' = "classified"
    /\ UNCHANGED <<grid_ids, travel_times, tt_float, sorted_table, unique, kernel,
                   config, scores>>
    /\ UNCHANGED <<clsVars, cacheVars, cfgVars>>

NextAgg ==
    \/ SortAndUnique
    \/ Mins
    \/ Counts
    \/ Averages
    \/ Medians
    \/ ModifiedGaussian
    \/ CombinedModifiedGaussian
    \/ Classify

Init == InitAgg

Next == NextAgg

Spec == Init /\ [][Next]_vars

\* ------------------------------------------------- classifier on its own
\* quantile_classify as a function of its arguments: a call on a and NQ, then
\* a call on the same scores in another order.
MaxScores == 4
ScoreValues == {NaN, Num(-1), Num(0), Num(1), Num(2)}

\* the heatmap computation when none is running
IdleAgg ==
    /\ grid_ids = <<>>
    /\ travel_times = <<>>
    /\ tt_float = FALSE
    /\ sorted_table = <<>>
    /\ unique = [ids |-> <<>>, index |-> <<>>]
    /\ kernel = "none"
    /\ config = NoConfig
    /\ scores = None
    /\ classes = None
    /\ pc = "idle"

InitClassify ==
    /\ IdleAgg
    /\ IdleCache
    /\ IdleSettings
    /\ cls_a \in {None} \cup {Arr(x) : x \in UNION {SeqsOfLen(ScoreValues, n) : n \in 0..MaxScores}}
    /\ class_count \in ClassCounts
    /\ cls_out = None
    /\ perm = <<>>
    /\ cls_out_perm = None
    /\ cpc = "start"

Size(x) == IF x = None THEN 0 ELSE Len(x.arr)

\* the orders the second call is made in: the same order, the first two
\* positions swapped, and a rotation by one; they generate every permutation
Reorders(n) ==
    {[i \in 1..n |-> i],
     [i \in 1..n |-> IF i = 1 /\ n >= 2 THEN 2 ELSE IF i = 2 THEN 1 ELSE i],
     [i \in 1..n |-> (i % n) + 1]}

Permuted(x, p) == IF x = None THEN None ELSE Arr([i \in DOMAIN x.arr |-> x.arr[p[i]]])

ClassifyOnce ==
    /\ cpc = "start"
    /\ \E empty \in SeqsOfLen(GarbageValues, Size(cls_a)) :
        cls_out' = quantile_classify(cls_a, class_count, empty)
    /\ cpc' = "once"
    /\ UNCHANGED <<cls_a, class_count, perm, cls_out_perm>>
    /\ UNCHANGED <<aggVars, cacheVars, cfgVars>>

ClassifyPermuted ==
    /\ cpc = "once"
    /\ \E p \in Reorders(Size(cls_a)), empty \in SeqsOfLen(GarbageValues, Size(cls_a)) :
        /\ perm' = p
        /\ cls_out_perm' = quantile_classify(Permuted(cls_a, p), class_count, empty)
    /\ cpc' = "twice"
    /\ UNCHANGED <<cls_a, class_count, cls_out>>
    /\ UNCHANGED <<aggVars, cacheVars, cfgVars>>

NextClassify ==
    \/ ClassifyOnce
    \/ ClassifyPermuted

SpecClassify == InitClassify /\ [][NextClassify]_vars

\* ------------------------------------------------- cache with one caller
\* The routing stage storing matrices one call after the other.
InitCache ==
    /\ IdleAgg
    /\ IdleClassifier
    /\ IdleCache
    /\ IdleSettings

NextCache == SaveStep(1)

SpecCache == InitCache /\ [][NextCache]_vars

\* two callers of save_traveltime_matrix at once, their steps interleaved
NextCacheConcurrent == \E w \in Writers : SaveStep(w)

SpecCacheConcurrent == InitCache /\ [][NextCacheConcurrent]_vars

\* ------------------------------------------------- scenario 1
\* The heatmap computation on twelve samples with the travel times 1 to 12,
\* the grid ids in ascending order in four groups of three.
ScenarioIds == <<GridId(0, 1), GridId(0, 2), GridId(0, 5), GridId(0, 7)>>

InitScenario ==
    /\ IdleClassifier
    /\ IdleCache
    /\ IdleSettings
    /\ grid_ids = [i \in 1..12 |-> ScenarioIds[(i + 2) \div 3]]
    /\ travel_times = [i \in 1..12 |-> i]
    /\ tt_float \in BOOLEAN
    /\ sorted_table = <<>>
    /\ unique = [ids |-> <<>>, index |-> <<>>]
    /\ kernel = "none"
    /\ config = NoConfig
    /\ scores = None
    /\ classes = None
    /\ pc = "input"

SpecScenario == InitScenario /\ [][NextAgg]_vars

\* ------------------------------------------------- settings validation
InitSettings ==
    /\ IdleAgg
    /\ IdleClassifier
    /\ IdleCache
    /\ heatmap_type \in HeatmapTypes
    /\ \E wrapped \in BOOLEAN :
        \/ \E body \in GlobalConfigs :
              heatmap_config = IF wrapped THEN [poi |-> body] ELSE body
        \/ \E body \in CategoryMaps :
              heatmap_config = IF wrapped THEN [poi |-> body] ELSE body
    /\ settings_result = "running"
    /\ vpc = "pre"

NextSettings ==
    \/ PassPoiToHeatmapConfig
    \/ HeatmapConfigSchemaConnectivity
    \/ HeatmapConfigSchema

SpecSettings == InitSettings /\ [][NextSettings]_vars

\* ------------------------------------------------------------ properties
Count(S) == Cardinality(S)

\* the sorted rows of segment i: offsets unique.index[i] (inclusive) to the
\* next offset (exclusive), the last segment ending at the total length
SegmentEnd(i) ==
    IF i < Len(unique.index) THEN unique.index[i + 1] ELSE Len(sorted_table)

SegmentRows(i) == {p \in DOMAIN sorted_table : unique.index[i] < p /\ p <= SegmentEnd(i)}

StrictlyIncreasing(s) == \A i \in 1..(Len(s) - 1) : s[i] < s[i + 1]

IdsStrictlyIncreasing(s) == \A i \in 1..(Len(s) - 1) : IdLess(s[i], s[i + 1])

\* C1: after sort_and_unique_by_grid_ids the unique ids and the offsets have
\* the same length and are strictly increasing, the first offset is 0, the
\* ranges between consecutive offsets partition the sorted rows, and range i
\* holds exactly the multiset of travel times of the input samples whose
\* input grid id is unique_grid_ids[i], so that every input id has its own
\* segment.
C1_SegmentsGroupByGridId ==
    pc # "input" =>
        /\ Len(unique.ids) = Len(unique.index)
        /\ IdsStrictlyIncreasing(unique.ids)
        /\ StrictlyIncreasing(unique.index)
        /\ Len(grid_ids) > 0 => unique.index[1] = 0
        /\ Len(sorted_table) = Len(grid_ids)
        /\ \A p \in DOMAIN sorted_table :
                Count({i \in DOMAIN unique.index : p \in SegmentRows(i)}) = 1
        /\ \A j \in DOMAIN grid_ids : \E i \in DOMAIN unique.ids : unique.ids[i] = grid_ids[j]
        /\ \A i \in DOMAIN unique.ids : \A t \in TimeValues :
                Count({p \in SegmentRows(i) : sorted_table[p][2] = t})
                    = Count({j \in DOMAIN grid_ids :
                                grid_ids[j] = unique.ids[i] /\ travel_times[j] = t})

\* The part of C1 that does not depend on the dtype of the table: the
\* segments partition the sorted rows, and rows share a segment exactly when
\* their ids in the table are equal.
SegmentsPartitionSortedRows ==
    pc # "input" =>
        /\ Len(unique.ids) = Len(unique.index)
        /\ StrictlyIncreasing(unique.index)
        /\ Len(grid_ids) > 0 => unique.index[1] = 0
        /\ \A i \in DOMAIN unique.ids : \A p \in DOMAIN sorted_table :
                p \in SegmentRows(i) <=> sorted_table[p][1] = unique.ids[i]

\* the travel times of segment i, in the order of the sorted table
SegmentTimes(i) ==
    [j \in 1..(SegmentEnd(i) - unique.index[i]) |-> sorted_table[unique.index[i] + j][2]]

\* the score a kernel owes for the travel times seg
KernelOf(name, cfg, seg) ==
    CASE name = "mins" -> np_min(seg)
      [] name = "counts" -> Num(Len(seg))
      [] name = "averages" -> np_average(seg)
      [] name = "medians" -> np_median(seg)
      [] name = "modified_gaussian" ->
            GaussSum(ModifiedGaussianTerms(seg, cfg.cutoff), cfg.sensitivity)
      [] name = "combined_modified_gaussian" ->
            GaussSum(CombinedGaussianTerms(seg, cfg.cutoff, cfg.static_traveltime),
                     cfg.sensitivity)

Scored == pc \in {"scored", "classified"}

\* C2: on a non-empty input every kernel returns one score per unique grid
\* id, and score i is the kernel's value on the sorted rows from offset i
\* up to offset i + 1 (the total length for the last one).
C2_ScoresAlignedWithSegments ==
    (Scored /\ Len(travel_times) > 0) =>
        /\ scores # None
        /\ Len(scores.arr) = Len(unique.ids)
        /\ \A i \in DOMAIN unique.ids :
                scores.arr[i] = KernelOf(kernel, config, SegmentTimes(i))

C2_Witness ==
    /\ pc = "scored"
    /\ kernel = "medians"
    /\ Len(unique.ids) = 2
    /\ Len(travel_times) = 3
    /\ scores.arr[1] # scores.arr[2]

\* C9: an empty input raises nowhere: the aggregator returns empty rows, ids
\* and offsets, every kernel returns None, and the classifier returns None
\* for None and an empty array for an empty array.
C9_EmptyInputIsNoError ==
    /\ (Len(grid_ids) = 0 /\ pc # "input") =>
            /\ sorted_table = <<>>
            /\ unique.ids = <<>>
            /\ unique.index = <<>>
    /\ (Len(grid_ids) = 0 /\ Scored) => scores = None
    /\ (Len(grid_ids) = 0 /\ pc = "classified") => classes = None
    /\ \A NQ \in ClassCounts : quantile_classify(Arr(<<>>), NQ, <<>>) = Arr(<<>>)

C9_Witness ==
    /\ Len(grid_ids) = 0
    /\ pc = "classified"
    /\ kernel = "combined_modified_gaussian"

\* the samples of seg that are not beyond the cutoff, in their order
WithinCutoff(seg, cutoff) ==
    LET Within(t) == t <= cutoff
    IN SelectSeq(seg, Within)

\* one segment at offset 0
OneSegment == [ids |-> <<GridId(0, 1)>>, index |-> <<0>>]

\* C17: the modified gaussian score of a segment is the sum of
\* exp(-t * t / s), s = sensitivity / 3600, over the samples t <= cutoff of
\* the segment, one term per sample: samples beyond the cutoff add nothing,
\* samples at the cutoff do; sensitivity 3600, cutoff 100 and segment
\* [0, 1, 2] give exp(0) + exp(-1) + exp(-4).
C17_ModifiedGaussianSumsSamplesWithinCutoff ==
    /\ (Scored /\ kernel = "modified_gaussian" /\ Len(travel_times) > 0) =>
            \A i \in DOMAIN unique.ids :
                LET kept == WithinCutoff(SegmentTimes(i), config.cutoff)
                IN scores.arr[i] =
                        GaussSum([j \in DOMAIN kept |-> kept[j] * kept[j]],
                                 config.sensitivity)
    /\ modified_gaussian_per_grid(<<0, 1, 2>>, OneSegment, 3600, 100)
            = Arr(<<GaussSum(<<0, 1, 4>>, 3600)>>)

\* a segment with a sample at the cutoff and a sample beyond it
C17_Witness ==
    /\ pc = "scored"
    /\ kernel = "modified_gaussian"
    /\ config.cutoff = 1
    /\ Len(unique.ids) = 1
    /\ SegmentTimes(1) = <<2, 1, 0>>
    /\ scores.arr[1] = GaussSum(<<1, 0>>, config.sensitivity)

\* C18: the combined score of a segment is the sum over its samples
\* t <= cutoff of 1 (the term exp(0)) when t <= static_traveltime and of
\* exp(-(t - static_traveltime)^2 / s) otherwise; a sample beyond the cutoff
\* adds nothing even when it is within the static travel time;
\* static_traveltime 5, cutoff 20 and segment [3, 5, 10, 25] give
\* 1 + 1 + exp(-25 / s).
C18_CombinedGaussianSumsSamplesWithinCutoff ==
    /\ (Scored /\ kernel = "combined_modified_gaussian" /\ Len(travel_times) > 0) =>
            \A i \in DOMAIN unique.ids :
                LET kept == WithinCutoff(SegmentTimes(i), config.cutoff)
                    Shifted(t) == t - config.static_traveltime
                IN scores.arr[i] =
                        GaussSum([j \in DOMAIN kept |->
                                    IF kept[j] <= config.static_traveltime THEN 0
                                    ELSE Shifted(kept[j]) * Shifted(kept[j])],
                                 config.sensitivity)
    /\ combined_modified_gaussian_per_grid(<<3, 5, 10, 25>>, OneSegment, 3600, 20, 5)
            = Arr(<<GaussSum(<<0, 0, 25>>, 3600)>>)

\* a sample within the static travel time but beyond the cutoff, next to one
\* within both
C18_Witness ==
    /\ pc = "scored"
    /\ kernel = "combined_modified_gaussian"
    /\ config.cutoff = 0
    /\ config.static_traveltime = 1
    /\ Len(unique.ids) = 1
    /\ SegmentTimes(1) = <<1, 0, 2>>
    /\ scores.arr[1] = GaussSum(<<0>>, config.sensitivity)

Nums(s) == Arr([i \in DOMAIN s |-> Num(s[i])])

Halves(s) == Arr([i \in DOMAIN s |-> Rat(2 * s[i], 2)])

\* C20, as stated: in scenario 1 there are 4 unique grid ids, counts returns
\* [3,3,3,3], mins returns [1,4,6,9] and medians returns [2,5,7,10].
C20_ScenarioOneAsStated ==
    /\ pc # "input" => Len(unique.ids) = 4
    /\ (Scored /\ kernel = "counts") => scores = Nums(<<3, 3, 3, 3>>)
    /\ (Scored /\ kernel = "mins") => scores = Nums(<<1, 4, 6, 9>>)
    /\ (Scored /\ kernel = "medians") => scores = Halves(<<2, 5, 7, 10>>)

\* C20, amended: in scenario 1 there are 4 unique grid ids, counts returns
\* [3,3,3,3], mins returns [1,4,7,10] and medians returns [2,5,8,11], the
\* smallest and the middle travel time of the groups [1,2,3], [4,5,6],
\* [7,8,9] and [10,11,12].
C20_ScenarioOne ==
    /\ pc # "input" => Len(unique.ids) = 4
    /\ (Scored /\ kernel = "counts") => scores = Nums(<<3, 3, 3, 3>>)
    /\ (Scored /\ kernel = "mins") => scores = Nums(<<1, 4, 7, 10>>)
    /\ (Scored /\ kernel = "medians") => scores = Halves(<<2, 5, 8, 11>>)

\* the minimums of the scenario computed
C20_Witness ==
    /\ Len(travel_times) = 12
    /\ Len(unique.ids) = 4
    /\ pc = "scored"
    /\ kernel = "mins"
    /\ scores.arr[3] = Num(7)

\* the one argsort outcome that keeps rows of equal key in their input order
StableArgSort(keys) ==
    CHOOSE p \in ArgSorts(keys) :
        \A i, j \in DOMAIN p : (i < j /\ keys[p[i]] = keys[p[j]]) => p[i] < p[j]

\* C21: the rows are sorted by grid id with a stable sort: rows of one grid
\* id keep the order they have in the input, so the sorted table is the one
\* table the input determines.
C21_SortIsStable ==
    pc # "input" =>
        LET table == vstack_transpose(grid_ids, travel_times, tt_float)
            p == StableArgSort(Column(table, 1))
        IN sorted_table = [i \in DOMAIN table |-> table[p[i]]]

\* Gaussian scores are compared term by term: with one sensitivity above 0
\* and as many terms, x is at most y when every exponent of y is at most the
\* exponent of x at its place (exp(-e / s) falls as e grows); and a sum whose
\* exponents are all 0 or above is at most the number of its terms.
GaussLeq(x, y) ==
    /\ x.sensitivity = y.sensitivity
    /\ x.sensitivity > 0
    /\ Len(x.terms) = Len(y.terms)
    /\ \A j \in DOMAIN x.terms : y.terms[j] <= x.terms[j]

GaussAtMostCount(x, n) ==
    /\ x.sensitivity > 0
    /\ Len(x.terms) = n
    /\ \A j \in DOMAIN x.terms : x.terms[j] >= 0

\* the modified gaussian scores of the input the combined kernel was given
ModifiedGaussianOfSameInput ==
    modified_gaussian_per_grid(SortedTimes, unique, config.sensitivity, config.cutoff)

\* C24: on travel times of 0 and above, with a sensitivity above 0 and a
\* cutoff of 0 or above, the combined kernel with static_traveltime 0 returns
\* the scores of the modified gaussian kernel, and with any static_traveltime
\* of 0 or above a score that is at least the modified gaussian score and at
\* most the number of samples of the segment within the cutoff.
C24_CombinedRefinesModifiedGaussian ==
    (Scored /\ kernel = "combined_modified_gaussian" /\ Len(travel_times) > 0) =>
        /\ config.static_traveltime = 0 => scores = ModifiedGaussianOfSameInput
        /\ \A i \in DOMAIN unique.ids :
                /\ GaussLeq(ModifiedGaussianOfSameInput.arr[i], scores.arr[i])
                /\ GaussAtMostCount(scores.arr[i],
                                    Len(WithinCutoff(SegmentTimes(i), config.cutoff)))

\* static_traveltime 0 on a segment with a sample at 0, one at the cutoff
\* and one between
C24_Witness ==
    /\ pc = "scored"
    /\ kernel = "combined_modified_gaussian"
    /\ config.static_traveltime = 0
    /\ config.cutoff = 2
    /\ Len(unique.ids) = 1
    /\ SegmentTimes(1) = <<2, 0, 1>>
    /\ scores.arr[1] = GaussSum(<<4, 0, 1>>, config.sensitivity)

\* ---------------------------------------------- properties of the classifier
Classified == cpc \in {"once", "twice"} /\ cls_a # None

NonPositive(x) == ~IsNaN(x) /\ x.val <= 0

\* C3: the output has the length of the input, and classifying the scores
\* in another order gives the same classes in that order; with the identity
\* order this is: a second call returns what the first returned.
C3_PermutationEquivariant ==
    (cpc = "twice" /\ cls_a # None) =>
        /\ Len(cls_out.arr) = Len(cls_a.arr)
        /\ Len(cls_out_perm.arr) = Len(cls_a.arr)
        /\ \A i \in DOMAIN cls_a.arr : cls_out_perm.arr[i] = cls_out.arr[perm[i]]

\* C4: every score that is zero or negative gets class 0, whatever the
\* other scores are.
C4_NonPositiveIsClassZero ==
    Classified => \A i \in DOMAIN cls_a.arr : NonPositive(cls_a.arr[i]) => cls_out.arr[i] = 0

\* the breakpoints of C5: NQ times the quantile of the positive scores at
\* k / NQ, for k = 1 .. NQ - 1
Breakpoint(x, k, NQ) == QuantileScaled(SortAscending(SelectGt0(x)), k, NQ)

\* the class C5 gives the positive score v
BandClass(x, v, NQ) ==
    IF v * NQ < Breakpoint(x, 1, NQ) THEN 1
    ELSE IF v * NQ >= Breakpoint(x, NQ - 1, NQ) THEN NQ
    ELSE 1 + CHOOSE i \in 1..(NQ - 2) :
                Breakpoint(x, i, NQ) <= v * NQ /\ v * NQ < Breakpoint(x, i + 1, NQ)

\* C5: with at least one positive score, a positive score below the first
\* breakpoint gets class 1, one at or above the last gets class NQ, and one
\* from breakpoint i (inclusive) to breakpoint i + 1 (exclusive) gets i + 1.
C5_BandsInclusiveLowExclusiveHigh ==
    (Classified /\ SelectGt0(cls_a.arr) # <<>>) =>
        \A j \in DOMAIN cls_a.arr :
            Gt0(cls_a.arr[j]) => cls_out.arr[j] = BandClass(cls_a.arr, cls_a.arr[j].val, class_count)

\* C6: every label is in 0 .. class_count.
C6_LabelsInRange ==
    Classified => \A i \in DOMAIN cls_out.arr : cls_out.arr[i] \in 0..class_count

\* C7: a non-empty input without a positive score is classified all zeros.
C7_NoPositiveScoreGivesZeros ==
    (Classified /\ Len(cls_a.arr) > 0 /\ SelectGt0(cls_a.arr) = <<>>) =>
        cls_out = Arr([i \in DOMAIN cls_a.arr |-> 0])

C7_Witness ==
    /\ cpc = "once"
    /\ cls_a = Arr(<<Num(0), Num(0), Num(0)>>)
    /\ class_count = 2
    /\ cls_out = Arr(<<0, 0, 0>>)

RECURSIVE WithoutNaN(_)
WithoutNaN(x) ==
    IF x = <<>> THEN <<>>
    ELSE (IF IsNaN(Head(x)) THEN <<>> ELSE <<Head(x)>>) \o WithoutNaN(Tail(x))

\* C8: every NaN score gets class 0, and the breakpoints are those of the
\* input without its NaN scores.
C8_NaNIsClassZero ==
    Classified =>
        /\ \A i \in DOMAIN cls_a.arr : IsNaN(cls_a.arr[i]) => cls_out.arr[i] = 0
        /\ SelectGt0(cls_a.arr) # <<>> =>
                quantiles(cls_a.arr, class_count) = quantiles(WithoutNaN(cls_a.arr), class_count)

C8_Witness ==
    /\ cpc = "once"
    /\ cls_a = Arr(<<Num(2), NaN, Num(1)>>)
    /\ cls_out.arr[2] = 0
    /\ cls_out.arr[1] = class_count

NonNegative(x) == ~IsNaN(x) /\ x.val >= 0

\* C23: among the scores that are 0 or above a larger score never gets a
\* smaller class, so equal scores get equal classes; and every positive score
\* that no other score exceeds gets class class_count.
C23_ClassesMonotoneInScore ==
    Classified =>
        /\ \A i, j \in DOMAIN cls_a.arr :
                (/\ NonNegative(cls_a.arr[i])
                 /\ NonNegative(cls_a.arr[j])
                 /\ cls_a.arr[i].val <= cls_a.arr[j].val) =>
                    cls_out.arr[i] <= cls_out.arr[j]
        /\ \A i \in DOMAIN cls_a.arr :
                (/\ Gt0(cls_a.arr[i])
                 /\ \A j \in DOMAIN cls_a.arr :
                        Gt0(cls_a.arr[j]) => cls_a.arr[j].val <= cls_a.arr[i].val) =>
                    cls_out.arr[i] = class_count

\* ------------------------------------------------- properties of the cache
Busy(k) == \E w \in Writers : save_pc[w] # "idle" /\ KeyOf(save_args[w]) = k

LastStore(k) == store_log[k][Len(store_log[k])]

\* the file holds the columns objs: their names, lengths and elements
HoldsColumns(file, objs) ==
    /\ "npz" \in DOMAIN file
    /\ DOMAIN file.npz = DOMAIN objs
    /\ \A c \in DOMAIN objs : file.npz[c].data = objs[c]

\* the mapping has a column of length 0
HasEmptyColumn(objs) == \E c \in DOMAIN objs : objs[c] = <<>>

\* C10: once a store under a key has succeeded and no call on the key is
\* running, the file of the key holds exactly the columns of that store,
\* whatever was stored under the key before; and a call whose columns all
\* have elements fails for no other reason than the operating system
\* refusing the write, also when the directories were missing.
C10_FileHoldsMostRecentStore ==
    /\ \A k \in Keys :
        (store_log[k] # <<>> /\ LastStore(k).result = "ok" /\ ~Busy(k)) =>
            HoldsColumns(fs_files[k], LastStore(k).traveltimeobjs)
    /\ \A w \in Writers :
        ~HasEmptyColumn(save_args[w].traveltimeobjs) =>
            save_result[w] \in {"none", "running", "ok", "OSError"}

\* a narrow matrix stored over a wide one, in directories the first call made
C10_Witness ==
    \E k \in Keys :
        /\ Len(store_log[k]) = 2
        /\ store_log[k][1] = [result |-> "ok", traveltimeobjs |-> ColumnsWide]
        /\ store_log[k][2] = [result |-> "ok", traveltimeobjs |-> ColumnsNarrow]
        /\ HoldsColumns(fs_files[k], ColumnsNarrow)

\* the routing profile of the requested mode
RequestedProfile(args) ==
    IF args.mode = "walking" THEN args.walking_profile ELSE args.cycling_profile

\* the full key of a call and the path {mode}/{profile}/{batch_id}.npz of a key
FullKey(args) == <<args.mode, RequestedProfile(args), args.bulk_id>>

\* C11: the file of a key is {mode}/{profile}/{batch_id}.npz with the routing
\* profile of the requested mode, so a step changes the content of a path only
\* while a call whose full key is that path is running: a store on one key
\* leaves the file of every other key as it was.
C11_StoreTouchesOnlyTheFileOfItsKey ==
    [][\A f \in FilePaths :
          fs_files'[f] # fs_files[f] =>
              \E w \in Writers :
                  save_pc[w] # "idle" /\ FullKey(save_args[w]) = f]_vars

\* C12: after a store that failed in its write step the error is with the
\* caller and the path of the call holds no file or a complete archive, never
\* a partly written one.
C12_FailedWriteLeavesNoPartialFile ==
    \A w \in Writers :
        (save_pc[w] = "idle" /\ save_result[w] = "OSError") =>
            fs_files[FileDir(save_args[w])] # Partial

\* the dtype family of an element and of a loaded array (an object array is
\* how string columns are stored)
ElementFamily(e) ==
    IF IsStr(e) THEN "string" ELSE IF IsFloat(e) THEN "float" ELSE "integer"

ArrayFamily(arr) ==
    IF arr.dtype = "int64" THEN "integer"
    ELSE IF arr.dtype = "float64" THEN "float"
    ELSE "string"

\* every element of the column is of one family
Homogeneous(col) == \A i, j \in DOMAIN col : ElementFamily(col[i]) = ElementFamily(col[j])

SameColumns(loaded, objs) ==
    /\ loaded # Raised
    /\ DOMAIN loaded = DOMAIN objs
    /\ \A c \in DOMAIN objs :
        /\ Len(loaded[c].data) = Len(objs[c])
        /\ loaded[c].data = objs[c]
        /\ ArrayFamily(loaded[c]) = ElementFamily(objs[c][1])

\* C13: loading the file of a key after a successful store gives back the
\* names, the lengths and the elements of the stored columns, integer
\* columns as integer arrays, float columns as float arrays and string
\* columns as strings.
C13_LoadReturnsStoredColumns ==
    \A k \in Keys :
        (/\ store_log[k] # <<>>
         /\ LastStore(k).result = "ok"
         /\ ~Busy(k)
         /\ \A c \in DOMAIN LastStore(k).traveltimeobjs :
                Homogeneous(LastStore(k).traveltimeobjs[c])) =>
            SameColumns(load(fs_files, k), LastStore(k).traveltimeobjs)

\* a matrix with an integer, a float and a string column stored and loaded
C13_Witness ==
    \E k \in Keys :
        /\ store_log[k] # <<>>
        /\ LastStore(k) = [result |-> "ok", traveltimeobjs |-> ColumnsWide]
        /\ ~Busy(k)
        /\ ArrayFamily(load(fs_files, k).grid_ids) = "integer"
        /\ ArrayFamily(load(fs_files, k).travel_times) = "float"
        /\ load(fs_files, k).west.data = ColumnsWide.west

\* ------------------------------------------------- properties of the settings
Accepted == vpc = "done" /\ settings_result = "accepted"

GaussianTypes == {"modified_gaussian", "combined_cumulative_modified_gaussian"}

\* C14: a request for a gaussian heatmap type that the validation accepts has
\* a sensitivity above 0 in every category, so no kernel is given a decay
\* denominator of 0 or below.
C14_AcceptedGaussianSensitivityPositive ==
    (Accepted /\ heatmap_type \in GaussianTypes) =>
        \A category \in DOMAIN heatmap_config :
            heatmap_config[category]["sensitivity"].int > 0

\* the fields the config shape of a heatmap type requires
RequiredFields(type) ==
    IF type \in GaussianTypes \/ type = "closest_average" THEN validator_classes[type]
    ELSE {"max_traveltime"}

\* C15: a request that the validation accepts has every field its heatmap
\* type requires, given by the request and not filled in by a default: in
\* each category for the types configured by category, in the config itself
\* for connectivity.
C15_AcceptedConfigHasRequiredFields ==
    Accepted =>
        IF heatmap_type = "connectivity"
        THEN heatmap_config["max_traveltime"] # None
        ELSE \A category \in DOMAIN heatmap_config :
                RequiredFields(heatmap_type) \subseteq DOMAIN heatmap_config[category]

\* C16: a cumulative request whose heatmap_config is one global
\* max_traveltime passes the validation.
C16_CumulativeConfigAccepted ==
    (vpc = "done" /\ heatmap_type = "cumulative"
        /\ DOMAIN heatmap_config = {"max_traveltime"}
        /\ heatmap_config["max_traveltime"].int <= MaxConnectivityTraveltime) =>
            settings_result = "accepted"

\* ------------------------------------------- properties of concurrent stores
\* both callers have called, for different batch ids under one mode and
\* one pair of profiles, each with columns that all have elements
OnDifferentKeysOfOneDirectory ==
    /\ \A w \in Writers : save_result[w] # "none"
    /\ \A w \in Writers : ~HasEmptyColumn(save_args[w].traveltimeobjs)
    /\ save_args[1].bulk_id # save_args[2].bulk_id
    /\ save_args[1].mode = save_args[2].mode
    /\ save_args[1].walking_profile = save_args[2].walking_profile
    /\ save_args[1].cycling_profile = save_args[2].cycling_profile

\* C22: two calls on different batch ids under the same mode and profile,
\* interleaved in any way, fail for no reason of their own (only when the
\* operating system refuses a write), also when the directory is missing at
\* first, and a call that has ended well has left its columns in its file.
C22_ConcurrentStoresOnDifferentKeysSucceed ==
    OnDifferentKeysOfOneDirectory =>
        \A w \in Writers :
            /\ save_result[w] \in {"running", "ok", "OSError"}
            /\ (save_result[w] = "ok" /\ save_pc[w] = "idle") =>
                    HoldsColumns(fs_files[FileDir(save_args[w])],
                                 save_args[w].traveltimeobjs)

\* ------------------------------------------- properties of a failed conversion
\* the steps of a call after its conversion loop
FilesystemSteps == {"exists", "makedirs", "delete", "write"}

\* C25: a call given a mapping with a zero-length column fails in the
\* conversion, before any step on the filesystem: it never reaches the
\* steps after the conversion, and the step that ends it hands IndexError to
\* the caller and leaves the directories and every file, the one stored
\* before under its key included, as they were.
C25_EmptyColumnFailsBeforeFilesystem ==
    /\ [](\A w \in Writers :
            HasEmptyColumn(save_args[w].traveltimeobjs) =>
                save_pc[w] \notin FilesystemSteps)
    /\ [][\A w \in Writers :
            (/\ save_pc[w] = "convert"
             /\ save_pc'[w] # "convert"
             /\ HasEmptyColumn(save_args[w].traveltimeobjs)) =>
                /\ save_pc'[w] = "idle"
                /\ save_result'[w] = "IndexError"
                /\ fs_dirs' = fs_dirs
                /\ fs_files' = fs_files]_vars

\* a call with a zero-length column has failed on a key whose file was
\* stored before, and the file still holds the columns of that store
C25_Witness ==
    \E k \in Keys :
        /\ Len(store_log[k]) = 2
        /\ store_log[k][1] = [result |-> "ok", traveltimeobjs |-> ColumnsWide]
        /\ store_log[k][2] = [result |-> "IndexError",
                              traveltimeobjs |-> ColumnsWithEmptyColumn]
        /\ ~Busy(k)
        /\ HoldsColumns(fs_files[k], ColumnsWide)

====
